---- MODULE Spec2Model ----
(***************************************************************************)
(* Model of the Lynqar vault core: the React vault context (unlock, lock,  *)
(* addEntry, updateEntry, deleteEntry), vault creation, the Dexie store,   *)
(* the AES-GCM record cipher, the authentication rate limiter and the      *)
(* backup codec.  Asynchronous handlers are split at their awaits: every   *)
(* in-flight call is a task with a program counter and its locals.         *)
(***************************************************************************)
EXTENDS Integers, Sequences, FiniteSets, TLC

(***************************************************************************)
(* Bounds of the model.                                                    *)
(***************************************************************************)
MaxTasks == 2        \* calls that may be in flight at once
MaxId == 2           \* entry ids are 1..MaxId
MaxSalt == 1         \* salts are 1..MaxSalt
MaxIV == 1           \* IVs are 1..MaxIV
MaxTicks == 2        \* number of times the clock advances
MaxWaits == 5        \* number of waits between direct calls of the limiter
MaxCount == 11       \* failed attempts recorded for one identity
MaxElapses == 64     \* half seconds the clock runs while tokens are shown

(***************************************************************************)
(* Program constants.                                                      *)
(***************************************************************************)
ATTEMPTS_30S == 5
ATTEMPTS_5MIN == 10
LOCKOUT_30S == 30 * 1000
LOCKOUT_5MIN == 5 * 60 * 1000
IdSliceModulus == 1000000     \* Date.now().toString().slice(-6)
StartNow == 2000000           \* Date.now() when the page is first opened

Passwords == {"P", "Q"}
\* the absence of the optional field `notes`
NoNotes == ""
\* payloads of addEntry and updateEntry: one without notes, one with
Payloads == {[title |-> "a", notes |-> NoNotes], [title |-> "b", notes |-> "n"]}
Ids == 1..MaxId
Salts == 1..MaxSalt
IVs == 1..MaxIV
Slots == 1..MaxTasks
\* the slot of the calls of a user who waits for each call to return
Foreground == {1}
TickDeltas == {1, LOCKOUT_30S + 1}
\* the time a caller of the limiter lets pass between two calls
WaitStep == 20 * 1000
\* caller-supplied identities of the limiter
Identities == {IdSliceModulus + 1}

VARIABLES
  now,          \* Date.now(), in milliseconds
  ticks,        \* how often the clock has advanced (bounded)
  dbSalt,       \* db.meta row 'salt', NoSalt when the row is absent
  dbEntries,    \* db.entries: id -> the encrypted column
  key,          \* useState key
  entries,      \* useState entries
  unlocked,     \* useState unlocked
  screen,       \* useState screen of AppContent
  records,      \* AuthenticationRateLimiter.records: clientId -> record
  storage,      \* localStorage[RATE_LIMIT_KEY]
  tasks,        \* in-flight asynchronous calls
  last,         \* outcome of the call that returned most recently
  download,     \* the file the last export handed to the browser, or NoBlob
  vaultPw,      \* history: the password the vault was created with
  fails         \* history: times of the failed unlocks since the last success

vars == <<now, ticks, dbSalt, dbEntries, key, entries, unlocked, screen,
          records, storage, tasks, last, download, vaultPw, fails>>

(***************************************************************************)
(* Values.                                                                 *)
(***************************************************************************)
NoSalt == 0
NoPw == ""
NoKey == [pw |-> NoPw, salt |-> NoSalt]
NoEntry == [id |-> 0, createdAt |-> 0, updatedAt |-> 0, title |-> "", notes |-> ""]
NoEnvelope == [version |-> 0, iv |-> 0, k |-> NoKey, pt |-> NoEntry]
\* a string that JSON.parse rejects
Garbage == [wf |-> FALSE, env |-> NoEnvelope]
EmptyMap == [i \in {} |-> Garbage]
NoRecords == [c \in {} |-> [count |-> 0, lastAttempt |-> 0, lockoutUntil |-> 0]]
NoChecksum == [pw |-> NoPw, version |-> 0, createdAt |-> 0, salt |-> NoSalt,
               entries |-> <<>>, total |-> 0]
NoFile == [version |-> 0, createdAt |-> 0, salt |-> NoSalt, entries |-> <<>>,
           entriesOk |-> FALSE, total |-> 0, signature |-> "", checksum |-> NoChecksum]
\* a string that atob rejects
NoBlob == [b64 |-> FALSE, bytes |-> <<>>]

(***************************************************************************)
(* crypto.ts                                                               *)
(***************************************************************************)
\* PBKDF2 is deterministic and, for the model, injective in (password, salt)
deriveKey(password, saltB64) == [pw |-> password, salt |-> saltB64]

\* AES-GCM under key k with IV iv: the ciphertext binds k, iv and the plaintext
encryptJSON(k, iv, payload) == [version |-> 1, iv |-> iv, k |-> k, pt |-> payload]

\* the tag verifies only under the key (and IV) the envelope was sealed with
decryptOk(k, encrypted) == encrypted.version = 1 /\ encrypted.k = k /\ k # NoKey

decryptJSON(k, encrypted) == encrypted.pt

JSONstringify(envelope) == [wf |-> TRUE, env |-> envelope]

JSONparseOk(str) == str.wf

JSONparse(str) == str.env

(***************************************************************************)
(* AuthenticationRateLimiter (security.ts)                                 *)
(***************************************************************************)
\* navigator.userAgent.slice(0, 50) is the same for every call of a client;
\* what varies is the last six digits of the millisecond clock
getClientIdentifier(t) == t % IdSliceModulus

FreshRecord == [count |-> 0, lastAttempt |-> 0, lockoutUntil |-> 0]

RecordOf(recs, clientId) ==
  IF clientId \in DOMAIN recs THEN recs[clientId] ELSE FreshRecord

PutRecord(recs, clientId, rec) ==
  [c \in (DOMAIN recs) \cup {clientId} |-> IF c = clientId THEN rec ELSE recs[c]]

Max(a, b) == IF a >= b THEN a ELSE b

\* the optional argument `identifier` left out by the caller
NoIdentifier == IdSliceModulus

\* identifier || this.getClientIdentifier()
clientIdOf(identifier, t) ==
  IF identifier = NoIdentifier THEN getClientIdentifier(t) ELSE identifier

\* mutant: a refused check counts as an attempt
checkLimit_CountsRefusal(recs, identifier, t) ==
  LET clientId == clientIdOf(identifier, t)
      record == RecordOf(recs, clientId)
  IN IF t < record.lockoutUntil
       THEN [allowed |-> FALSE, waitTime |-> record.lockoutUntil - t,
             records |-> PutRecord(recs, clientId,
                            [record EXCEPT !.count = record.count + 1])]
       ELSE IF t - record.lastAttempt > LOCKOUT_30S
         THEN [allowed |-> TRUE, waitTime |-> 0,
               records |-> PutRecord(recs, clientId,
                              [record EXCEPT !.count = Max(0, record.count - 1)])]
         ELSE [allowed |-> TRUE, waitTime |-> 0,
               records |-> PutRecord(recs, clientId, record)]

\* mutant: an allowed check lowers the counter whatever time has passed
checkLimit_AlwaysDecays(recs, identifier, t) ==
  LET clientId == clientIdOf(identifier, t)
      record == RecordOf(recs, clientId)
  IN IF t < record.lockoutUntil
       THEN [allowed |-> FALSE, waitTime |-> record.lockoutUntil - t,
             records |-> PutRecord(recs, clientId, record)]
       ELSE [allowed |-> TRUE, waitTime |-> 0,
             records |-> PutRecord(recs, clientId,
                            [record EXCEPT !.count = Max(0, record.count - 1)])]

\* checkLimit(identifier): the answer together with the records map it leaves
checkLimit(recs, identifier, t) ==
  LET clientId == clientIdOf(identifier, t)
      record == RecordOf(recs, clientId)
  IN IF t < record.lockoutUntil
       THEN [allowed |-> FALSE, waitTime |-> record.lockoutUntil - t,
             records |-> PutRecord(recs, clientId, record)]
       ELSE IF t - record.lastAttempt > LOCKOUT_30S
         THEN [allowed |-> TRUE, waitTime |-> 0,
               records |-> PutRecord(recs, clientId,
                              [record EXCEPT !.count = Max(0, record.count - 1)])]
         ELSE [allowed |-> TRUE, waitTime |-> 0,
               records |-> PutRecord(recs, clientId, record)]

\* mutant: the short lockout is tested first and wins
recordFailedAttempt_ShortFirst(recs, identifier, t) ==
  LET clientId == clientIdOf(identifier, t)
      record == RecordOf(recs, clientId)
      count == record.count + 1
  IN PutRecord(recs, clientId,
       [count |-> count,
        lastAttempt |-> t,
        lockoutUntil |-> IF count >= ATTEMPTS_30S THEN t + LOCKOUT_30S
                         ELSE IF count >= ATTEMPTS_5MIN THEN t + LOCKOUT_5MIN
                         ELSE record.lockoutUntil])

\* mutant: a failure below the thresholds forgets the lockout of the record
recordFailedAttempt_ForgetsLockout(recs, identifier, t) ==
  LET clientId == clientIdOf(identifier, t)
      record == RecordOf(recs, clientId)
      count == record.count + 1
  IN PutRecord(recs, clientId,
       [count |-> count,
        lastAttempt |-> t,
        lockoutUntil |-> IF count >= ATTEMPTS_5MIN THEN t + LOCKOUT_5MIN
                         ELSE IF count >= ATTEMPTS_30S THEN t + LOCKOUT_30S
                         ELSE 0])

recordFailedAttempt(recs, identifier, t) ==
  LET clientId == clientIdOf(identifier, t)
      record == RecordOf(recs, clientId)
      count == record.count + 1
  IN PutRecord(recs, clientId,
       [count |-> count,
        lastAttempt |-> t,
        lockoutUntil |-> IF count >= ATTEMPTS_5MIN THEN t + LOCKOUT_5MIN
                         ELSE IF count >= ATTEMPTS_30S THEN t + LOCKOUT_30S
                         ELSE record.lockoutUntil])

recordSuccessfulAttempt(recs, identifier, t) ==
  LET clientId == clientIdOf(identifier, t)
  IN [c \in (DOMAIN recs) \ {clientId} |-> recs[c]]


(***************************************************************************)
(* In-flight calls.                                                        *)
(***************************************************************************)
IdleTask == [op |-> "idle", pc |-> "", pw |-> NoPw, derived |-> NoKey,
             all |-> EmptyMap, entry |-> NoEntry, enc |-> Garbage, id |-> 0,
             backup |-> NoFile, mode |-> "", n |-> 0, imported |-> 0,
             written |-> 0, failed |-> 0]

\* the absence of a TOTP token
NoToken == [secret |-> "", counter |-> 0]

NoCall == [op |-> "", success |-> FALSE, wait |-> 0, err |-> "",
           totalEntries |-> 0, imported |-> 0,
           mode |-> "", backup |-> NoFile, written |-> 0, failed |-> 0,
           token |-> NoToken, remaining |-> 0, period |-> 0, at |-> 0]

Returned(op, success, wait, err) ==
  [op |-> op, success |-> success, wait |-> wait, err |-> err,
   totalEntries |-> 0, imported |-> 0,
   mode |-> "", backup |-> NoFile, written |-> 0, failed |-> 0,
   token |-> NoToken, remaining |-> 0, period |-> 0, at |-> 0]

Idle(t) == tasks[t].op = "idle"

Start(t, task) == tasks' = [tasks EXCEPT ![t] = task]

Finish(t) == tasks' = [tasks EXCEPT ![t] = IdleTask]

\* the last (at most ATTEMPTS_30S) failure times, newest last
NoteFailure(fs, t) ==
  LET all == Append(fs, t)
  IN IF Len(all) > ATTEMPTS_30S THEN Tail(all) ELSE all

(***************************************************************************)
(* App.tsx: checkScreen, run on mount and whenever `unlocked` changes      *)
(***************************************************************************)
checkScreen(current, salt, isUnlocked, readOk) ==
  IF ~readOk THEN current
  ELSE IF salt = NoSalt THEN "onboarding"
  ELSE IF ~isUnlocked THEN "unlock"
  ELSE "vault"

(***************************************************************************)
(* Initial states: the page is opened on whatever the store holds from     *)
(* earlier sessions.  Nothing is held in memory and nothing is in          *)
(* localStorage.  A store without a salt has no rows; a store with a salt  *)
(* holds, per id, no row, a row that does not parse, or a row sealed under *)
(* the key of one of the passwords (rows of different keys meet in one     *)
(* store after a merge import or after two calls have raced).              *)
(***************************************************************************)
InitialEntry(id) ==
  [id |-> id, createdAt |-> StartNow - 1, updatedAt |-> 0, title |-> "a",
   notes |-> NoNotes]

InitialRows(salt, id) ==
  {Garbage} \cup
  {JSONstringify(encryptJSON(deriveKey(pw, salt), 1, InitialEntry(id))) :
     pw \in Passwords}

InitialStores(salt) ==
  IF salt = NoSalt THEN {EmptyMap}
  ELSE UNION {{db \in [S -> UNION {InitialRows(salt, i) : i \in S}] :
                 \A i \in S : db[i] \in InitialRows(salt, i)} : S \in SUBSET Ids}

Init ==
  /\ now = StartNow
  /\ ticks = 0
  /\ dbSalt \in {NoSalt} \cup Salts
  /\ dbEntries \in InitialStores(dbSalt)
  /\ vaultPw = IF dbSalt = NoSalt THEN NoPw ELSE "P"
  /\ key = NoKey
  /\ entries = <<>>
  /\ unlocked = FALSE
  /\ screen = IF dbSalt = NoSalt THEN "onboarding" ELSE "unlock"
  /\ records = NoRecords
  /\ storage = NoRecords
  /\ tasks = [t \in Slots |-> IdleTask]
  /\ last = NoCall
  /\ download = NoBlob
  /\ fails = <<>>

(***************************************************************************)
(* The clock.                                                              *)
(***************************************************************************)
Tick ==
  /\ ticks < MaxTicks
  /\ \E d \in TickDeltas : now' = now + d
  /\ ticks' = ticks + 1
  /\ UNCHANGED <<dbSalt, dbEntries, key, entries, unlocked, screen, records,
                 storage, tasks, last, download, vaultPw, fails>>

(***************************************************************************)
(* Page load: React state is re-created, the rate limiter singleton is     *)
(* rebuilt from localStorage, calls in flight die with the page.           *)
(***************************************************************************)
Reload ==
  /\ \E readOk \in BOOLEAN :
       screen' = checkScreen("onboarding", dbSalt, FALSE, readOk)
  /\ key' = NoKey
  /\ entries' = <<>>
  /\ unlocked' = FALSE
  /\ records' = storage
  /\ tasks' = [t \in Slots |-> IdleTask]
  /\ UNCHANGED <<now, ticks, dbSalt, dbEntries, storage, last, download,
                 vaultPw, fails>>

(***************************************************************************)
(* VaultOnboarding.tsx: handleSubmit                                       *)
(***************************************************************************)
\* genSalt(): 16 random bytes never repeat the persisted salt; the model
\* draws one representative of the salts that differ from it
genSalt(current) ==
  IF current = NoSalt THEN 1 ELSE (current % (MaxSalt + 1)) + 1

handleSubmit(password) ==
  /\ screen = "onboarding"
  /\ \E kdfOk \in BOOLEAN, putOk \in BOOLEAN :
       LET saltB64 == genSalt(dbSalt)
       IN
       IF kdfOk /\ putOk
         THEN \* salt stored, then window.location.reload()
              /\ dbSalt' = saltB64
              /\ vaultPw' = password
              /\ screen' = "unlock"
              /\ key' = NoKey
              /\ entries' = <<>>
              /\ unlocked' = FALSE
              /\ records' = storage
              /\ tasks' = [t \in Slots |-> IdleTask]
              /\ last' = Returned("create", TRUE, 0, "")
         ELSE /\ last' = Returned("create", FALSE, 0, "Failed to create vault")
              /\ UNCHANGED <<dbSalt, vaultPw, screen, key, entries, unlocked,
                             records, tasks>>
  /\ UNCHANGED <<now, ticks, dbEntries, storage, download, fails>>

(***************************************************************************)
(* VaultContext.tsx: unlock                                                *)
(***************************************************************************)
\* ids of a toArray() result, in primary-key order
RECURSIVE SortedIds(_)
SortedIds(S) ==
  IF S = {} THEN <<>>
  ELSE LET m == CHOOSE x \in S : \A y \in S : x <= y
       IN <<m>> \o SortedIds(S \ {m})

\* mutant: the unlock is accepted as soon as one row decrypts
AllDecrypt_SomeRow(k, all) ==
  \E i \in DOMAIN all : JSONparseOk(all[i]) /\ decryptOk(k, JSONparse(all[i]))

\* every row parses and decrypts under k
AllDecrypt(k, all) ==
  \A i \in DOMAIN all : JSONparseOk(all[i]) /\ decryptOk(k, JSONparse(all[i]))

Decoded(k, all) ==
  LET ids == SortedIds(DOMAIN all)
  IN [n \in 1..Len(ids) |-> decryptJSON(k, JSONparse(all[ids[n]]))]

\* the catch block: one failed attempt is recorded, {success: false} returned
UnlockCatch(t, recs) ==
  /\ records' = recordFailedAttempt(recs, NoIdentifier, now)
  /\ storage' = records'
  /\ fails' = NoteFailure(fails, now)
  /\ last' = Returned("unlock", FALSE, 0, "")
  /\ Finish(t)
  /\ UNCHANGED <<key, entries, unlocked, screen>>

\* setKey / setEntries / setUnlocked, then recordSuccessfulAttempt
UnlockCommit(t, derived, all) ==
  /\ key' = derived
  /\ entries' = Decoded(derived, all)
  /\ unlocked' = TRUE
  /\ records' = recordSuccessfulAttempt(records, NoIdentifier, now)
  /\ storage' = records'
  /\ fails' = <<>>
  /\ last' = Returned("unlock", TRUE, 0, "")
  /\ \E readOk \in BOOLEAN : screen' = checkScreen(screen, dbSalt, TRUE, readOk)
  /\ Finish(t)

\* mutant: a refused call is counted as one more failed attempt
UnlockCall_CountsRefusal(t, password) ==
  /\ Idle(t)
  /\ LET limitCheck == checkLimit(records, NoIdentifier, now)
     IN IF ~limitCheck.allowed
          THEN /\ records' = recordFailedAttempt(limitCheck.records, NoIdentifier, now)
               /\ last' = Returned("unlock", FALSE, limitCheck.waitTime, "rateLimit")
               /\ UNCHANGED tasks
          ELSE /\ records' = limitCheck.records
               /\ Start(t, [IdleTask EXCEPT !.op = "unlock", !.pc = "getSalt",
                                            !.pw = password])
               /\ UNCHANGED last
  /\ UNCHANGED <<now, ticks, dbSalt, dbEntries, key, entries, unlocked, screen,
                 storage, download, vaultPw, fails>>

\* the call itself: the rate limiter is consulted, db.meta.get is issued
UnlockCall(t, password) ==
  /\ Idle(t)
  /\ LET limitCheck == checkLimit(records, NoIdentifier, now)
     IN /\ records' = limitCheck.records
        /\ IF ~limitCheck.allowed
             THEN /\ last' = Returned("unlock", FALSE, limitCheck.waitTime, "rateLimit")
                  /\ UNCHANGED tasks
             ELSE /\ Start(t, [IdleTask EXCEPT !.op = "unlock", !.pc = "getSalt",
                                               !.pw = password])
                  /\ UNCHANGED last
  /\ UNCHANGED <<now, ticks, dbSalt, dbEntries, key, entries, unlocked, screen,
                 storage, download, vaultPw, fails>>

\* db.meta.get('salt') has settled; deriveKey follows
UnlockGetSaltStep(t, readOk, kdfOk) ==
  /\ tasks[t].op = "unlock" /\ tasks[t].pc = "getSalt"
  /\   IF readOk /\ dbSalt = NoSalt
         THEN \* recordFailedAttempt before the throw, and again in the catch
              UnlockCatch(t, recordFailedAttempt(records, NoIdentifier, now))
         ELSE IF ~readOk \/ ~kdfOk
           THEN UnlockCatch(t, records)
           ELSE /\ Start(t, [tasks[t] EXCEPT !.pc = "toArray",
                                 !.derived = deriveKey(tasks[t].pw, dbSalt)])
                /\ UNCHANGED <<key, entries, unlocked, screen, records, storage,
                               last, fails>>
  /\ UNCHANGED <<now, ticks, dbSalt, dbEntries, download, vaultPw>>

UnlockGetSalt(t) ==
  \E readOk \in BOOLEAN, kdfOk \in BOOLEAN : UnlockGetSaltStep(t, readOk, kdfOk)

\* db.entries.toArray() has settled; with no rows the loop body never runs
UnlockToArrayStep(t, readOk) ==
  /\ tasks[t].op = "unlock" /\ tasks[t].pc = "toArray"
  /\   IF ~readOk
         THEN UnlockCatch(t, records)
         ELSE IF DOMAIN dbEntries = {}
           THEN UnlockCommit(t, tasks[t].derived, dbEntries)
           ELSE /\ Start(t, [tasks[t] EXCEPT !.pc = "decrypt", !.all = dbEntries])
                /\ UNCHANGED <<key, entries, unlocked, screen, records, storage,
                               last, fails>>
  /\ UNCHANGED <<now, ticks, dbSalt, dbEntries, download, vaultPw>>

UnlockToArray(t) == \E readOk \in BOOLEAN : UnlockToArrayStep(t, readOk)

\* the decrypt loop has run over the rows read by toArray()
UnlockDecrypt(t) ==
  /\ tasks[t].op = "unlock" /\ tasks[t].pc = "decrypt"
  /\ IF AllDecrypt(tasks[t].derived, tasks[t].all)
       THEN UnlockCommit(t, tasks[t].derived, tasks[t].all)
       ELSE UnlockCatch(t, records)
  /\ UNCHANGED <<now, ticks, dbSalt, dbEntries, download, vaultPw>>

unlock(t) ==
  \/ \E password \in Passwords : UnlockCall(t, password)
  \/ UnlockGetSalt(t)
  \/ UnlockToArray(t)
  \/ UnlockDecrypt(t)

(***************************************************************************)
(* VaultContext.tsx: lock                                                  *)
(***************************************************************************)
\* mutant: lock forgets setEntries([])
lock_KeepsEntries ==
  /\ key' = NoKey
  /\ unlocked' = FALSE
  /\ \E readOk \in BOOLEAN :
       screen' = IF unlocked THEN checkScreen(screen, dbSalt, FALSE, readOk)
                 ELSE screen
  /\ last' = Returned("lock", TRUE, 0, "")
  /\ UNCHANGED <<now, ticks, dbSalt, dbEntries, entries, records, storage, tasks,
                 download, vaultPw, fails>>

lock ==
  /\ key' = NoKey
  /\ entries' = <<>>
  /\ unlocked' = FALSE
  /\ \E readOk \in BOOLEAN :
       screen' = IF unlocked THEN checkScreen(screen, dbSalt, FALSE, readOk)
                 ELSE screen
  /\ last' = Returned("lock", TRUE, 0, "")
  /\ UNCHANGED <<now, ticks, dbSalt, dbEntries, records, storage, tasks,
                 download, vaultPw, fails>>


(***************************************************************************)
(* VaultContext.tsx: addEntry, updateEntry, deleteEntry                    *)
(***************************************************************************)
Range(f) == {f[i] : i \in DOMAIN f}

MemIds == {entries[n].id : n \in DOMAIN entries}

\* ids crypto.randomUUID() cannot return: those already in use somewhere
UsedIds == (DOMAIN dbEntries) \cup MemIds \cup {tasks[t].entry.id : t \in Slots}

DbPut(db, id, encrypted) ==
  [i \in (DOMAIN db) \cup {id} |-> IF i = id THEN encrypted ELSE db[i]]

DbDelete(db, id) == [i \in (DOMAIN db) \ {id} |-> db[i]]

\* mutant: the creation time is taken anew on every update
createdAtOf_Now(es, id, t) == t

\* entries.find(e => e.id === id)?.createdAt || new Date().toISOString()
createdAtOf(es, id, t) ==
  IF \E n \in DOMAIN es : es[n].id = id
    THEN es[CHOOSE n \in DOMAIN es :
              es[n].id = id /\ \A m \in DOMAIN es : es[m].id = id => n <= m].createdAt
    ELSE t

\* prev => prev.map(e => e.id === id ? entry : e)
MapReplace(prev, id, entry) ==
  [n \in DOMAIN prev |-> IF prev[n].id = id THEN entry ELSE prev[n]]

\* prev => prev.filter(e => e.id !== id)
RECURSIVE FilterOut(_, _)
FilterOut(prev, id) ==
  IF prev = <<>> THEN <<>>
  ELSE IF Head(prev).id = id THEN FilterOut(Tail(prev), id)
  ELSE <<Head(prev)>> \o FilterOut(Tail(prev), id)

\* a call that throws synchronously because no key is held
ThrowLocked(op) ==
  /\ last' = Returned(op, FALSE, 0, "Vault is locked")
  /\ UNCHANGED <<dbEntries, entries, tasks>>

\* the call: the key guard, the record is built, encryptJSON draws its IV
AddCall(t, payload) ==
  /\ Idle(t)
  /\ IF key = NoKey
       THEN ThrowLocked("add")
       ELSE /\ \E id \in Ids \ UsedIds, iv \in IVs :
                 LET entry == [id |-> id, createdAt |-> now, updatedAt |-> 0,
                               title |-> payload.title, notes |-> payload.notes]
                 IN Start(t, [IdleTask EXCEPT !.op = "add", !.pc = "encrypt",
                                !.entry = entry,
                                !.enc = JSONstringify(encryptJSON(key, iv, entry))])
            /\ UNCHANGED <<dbEntries, entries, last>>

UpdateCall(t, id, payload) ==
  /\ Idle(t)
  /\ IF key = NoKey
       THEN ThrowLocked("update")
       ELSE /\ \E iv \in IVs :
                 LET entry == [id |-> id, createdAt |-> createdAtOf(entries, id, now),
                               updatedAt |-> now, title |-> payload.title,
                               notes |-> payload.notes]
                 IN Start(t, [IdleTask EXCEPT !.op = "update", !.pc = "encrypt",
                                !.entry = entry,
                                !.enc = JSONstringify(encryptJSON(key, iv, entry))])
            /\ UNCHANGED <<dbEntries, entries, last>>

\* mutant: the collection is updated before the put has settled
WritePutStep_MemoryFirst(t, encOk, putOk) ==
  /\ tasks[t].op \in {"add", "update"} /\ tasks[t].pc = "encrypt"
  /\ IF encOk /\ putOk
       THEN /\ dbEntries' = DbPut(dbEntries, tasks[t].entry.id, tasks[t].enc)
            /\ Start(t, [tasks[t] EXCEPT !.pc = "put"])
            /\ UNCHANGED <<last, entries>>
       ELSE /\ last' = Returned(tasks[t].op, FALSE, 0,
                                IF encOk THEN "put failed" ELSE "encrypt failed")
            /\ entries' = IF encOk THEN <<tasks[t].entry>> \o entries ELSE entries
            /\ Finish(t)
            /\ UNCHANGED dbEntries

\* encryptJSON has settled and db.entries.put is carried out by the store
WritePutStep(t, encOk, putOk) ==
  /\ tasks[t].op \in {"add", "update"} /\ tasks[t].pc = "encrypt"
  /\ IF encOk /\ putOk
       THEN /\ dbEntries' = DbPut(dbEntries, tasks[t].entry.id, tasks[t].enc)
            /\ Start(t, [tasks[t] EXCEPT !.pc = "put"])
            /\ UNCHANGED last
       ELSE /\ last' = Returned(tasks[t].op, FALSE, 0,
                                IF encOk THEN "put failed" ELSE "encrypt failed")
            /\ Finish(t)
            /\ UNCHANGED dbEntries
  /\ UNCHANGED entries

WritePut(t) ==
  \E encOk \in BOOLEAN, putOk \in BOOLEAN : WritePutStep(t, encOk, putOk)

\* the put has settled: setEntries
WriteCommit(t) ==
  /\ tasks[t].op \in {"add", "update"} /\ tasks[t].pc = "put"
  /\ entries' = IF tasks[t].op = "add"
                  THEN <<tasks[t].entry>> \o entries
                  ELSE MapReplace(entries, tasks[t].entry.id, tasks[t].entry)
  /\ last' = Returned(tasks[t].op, TRUE, 0, "")
  /\ Finish(t)
  /\ UNCHANGED dbEntries

\* deleteEntry has no key guard: db.entries.delete is issued at once
DeleteCall(t, id) ==
  /\ Idle(t)
  /\ Start(t, [IdleTask EXCEPT !.op = "delete", !.pc = "delete", !.id = id])
  /\ UNCHANGED <<dbEntries, entries, last>>

DeleteDb(t) ==
  /\ tasks[t].op = "delete" /\ tasks[t].pc = "delete"
  /\ \E delOk \in BOOLEAN :
       IF delOk
         THEN /\ dbEntries' = DbDelete(dbEntries, tasks[t].id)
              /\ Start(t, [tasks[t] EXCEPT !.pc = "deleted"])
              /\ UNCHANGED last
         ELSE /\ last' = Returned("delete", FALSE, 0, "delete failed")
              /\ Finish(t)
              /\ UNCHANGED dbEntries
  /\ UNCHANGED entries

DeleteCommit(t) ==
  /\ tasks[t].op = "delete" /\ tasks[t].pc = "deleted"
  /\ entries' = FilterOut(entries, tasks[t].id)
  /\ last' = Returned("delete", TRUE, 0, "")
  /\ Finish(t)
  /\ UNCHANGED dbEntries

MutationFrame ==
  UNCHANGED <<now, ticks, dbSalt, key, unlocked, screen, records, storage,
              download, vaultPw, fails>>

addEntry(t) ==
  /\ \/ \E payload \in Payloads : AddCall(t, payload)
     \/ tasks[t].op = "add" /\ (WritePut(t) \/ WriteCommit(t))
  /\ MutationFrame

updateEntry(t) ==
  /\ \/ \E id \in Ids, payload \in Payloads : UpdateCall(t, id, payload)
     \/ tasks[t].op = "update" /\ (WritePut(t) \/ WriteCommit(t))
  /\ MutationFrame

deleteEntry(t) ==
  /\ \/ \E id \in Ids : DeleteCall(t, id)
     \/ DeleteDb(t)
     \/ DeleteCommit(t)
  /\ MutationFrame

(***************************************************************************)
(* backup.ts: the backup file, its checksum and its encryption             *)
(***************************************************************************)
BackupSignature == "LYNQAR_VAULT_BACKUP_V1"

\* allEntries.map(entry => ({id, encrypted})) over db.entries.toArray()
BackupRows(db) ==
  LET ids == SortedIds(DOMAIN db)
  IN [n \in 1..Len(ids) |-> [id |-> ids[n], encrypted |-> db[ids[n]]]]

\* the BackupData structure export assembles
BackupData(t, salt, db) ==
  [version |-> 1, createdAt |-> t, salt |-> salt, entries |-> BackupRows(db),
   entriesOk |-> TRUE, total |-> Cardinality(DOMAIN db),
   signature |-> "", checksum |-> NoChecksum]

\* HMAC-SHA256, under the checksum key derived from the password, of
\* JSON.stringify({version, createdAt, salt, entries, metadata})
Checksum(password, file) ==
  [pw |-> password, version |-> file.version, createdAt |-> file.createdAt,
   salt |-> file.salt,
   entries |-> IF file.entriesOk THEN file.entries ELSE <<>>,
   total |-> IF file.entriesOk THEN file.total ELSE -1]

\* finalBackup of the version that signs and checksums
SignedBackup(password, data) ==
  [data EXCEPT !.signature = BackupSignature, !.checksum = Checksum(password, data)]

\* finalBackup of src/lib/backup.ts: the signature only
PlainBackup(data) == [data EXCEPT !.signature = BackupSignature]

\* bytes are modelled in chunks: the 12 bytes of an IV, the first 12 bytes of
\* an AES-GCM ciphertext, and the rest of that ciphertext with its tag
IvBytes(iv) == <<[kind |-> "iv", pw |-> NoPw, iv |-> iv, file |-> NoFile]>>

\* crypto.subtle.encrypt under the backup key derived from the password
GcmEncrypt(password, iv, file) ==
  <<[kind |-> "ct-head", pw |-> password, iv |-> iv, file |-> file],
    [kind |-> "ct-rest", pw |-> password, iv |-> iv, file |-> file]>>

\* crypto.subtle.decrypt: the tag verifies only for a whole ciphertext under
\* the key and the IV it was produced with
GcmDecryptOk(password, ivBytes, ctBytes) ==
  /\ Len(ivBytes) = 1 /\ ivBytes[1].kind = "iv"
  /\ Len(ctBytes) = 2
  /\ ctBytes[1].kind = "ct-head" /\ ctBytes[2].kind = "ct-rest"
  /\ ctBytes[1].file = ctBytes[2].file /\ ctBytes[1].iv = ctBytes[2].iv
  /\ ctBytes[1].pw = ctBytes[2].pw
  /\ ctBytes[1].pw = password /\ ctBytes[1].iv = ivBytes[1].iv

GcmDecrypt(ctBytes) == ctBytes[1].file

btoa(bytes) == [b64 |-> TRUE, bytes |-> bytes]

atobOk(str) == str.b64

atob(str) == str.bytes

\* encryptedArray.slice(0, 12) and encryptedArray.slice(12)
SliceIv(bytes) == SubSeq(bytes, 1, IF Len(bytes) >= 1 THEN 1 ELSE 0)

SliceCipher(bytes) == SubSeq(bytes, 2, Len(bytes))

(***************************************************************************)
(* exportVaultBackup                                                       *)
(***************************************************************************)
ExportFrame ==
  UNCHANGED <<now, ticks, dbSalt, dbEntries, key, entries, unlocked, screen,
              records, storage, tasks, vaultPw, fails>>

\* the version that checksums: `combined` (IV || ciphertext) is built, but the
\* file handed to downloadFile is the base64 of the ciphertext alone
exportVaultBackup(masterPassword) ==
  /\ \E readOk \in BOOLEAN, hkdfOk \in BOOLEAN, iv \in IVs :
       IF readOk /\ dbSalt # NoSalt /\ hkdfOk
         THEN /\ download' = btoa(GcmEncrypt(masterPassword, iv,
                               SignedBackup(masterPassword,
                                            BackupData(now, dbSalt, dbEntries))))
              /\ last' = Returned("export", TRUE, 0, "")
         ELSE /\ last' = Returned("export", FALSE, 0, "Failed to create vault backup")
              /\ UNCHANGED download
  /\ ExportFrame

\* src/lib/backup.ts: no checksum, and no IV is kept at all
exportVaultBackupLib(masterPassword) ==
  /\ \E readOk \in BOOLEAN, hkdfOk \in BOOLEAN, iv \in IVs :
       IF readOk /\ dbSalt # NoSalt /\ hkdfOk
         THEN /\ download' = btoa(GcmEncrypt(masterPassword, iv,
                               PlainBackup(BackupData(now, dbSalt, dbEntries))))
              /\ last' = Returned("export", TRUE, 0, "")
         ELSE /\ last' = Returned("export", FALSE, 0, "Failed to create vault backup")
              /\ UNCHANGED download
  /\ ExportFrame

(***************************************************************************)
(* importVaultBackup                                                       *)
(***************************************************************************)
Incompatible == "Backup file is not compatible or corrupted"

\* computedChecksumB64 === backup.checksum
ChecksumMatches(password, file) == Checksum(password, file) = file.checksum

\* everything importVaultBackup does before its first write: "" when the
\* backup is accepted, otherwise the message of the error it throws
ImportError(blob, password, hkdfOk, checksummed) ==
  IF ~atobOk(blob) THEN "InvalidCharacterError"
  ELSE IF ~hkdfOk THEN "OperationError"
  ELSE IF ~GcmDecryptOk(password, SliceIv(atob(blob)), SliceCipher(atob(blob)))
    THEN Incompatible
  ELSE LET backup == GcmDecrypt(SliceCipher(atob(blob)))
       IN IF backup.signature # BackupSignature THEN Incompatible
          ELSE IF checksummed /\ ~ChecksumMatches(password, backup) THEN Incompatible
          ELSE IF ~backup.entriesOk THEN Incompatible
          ELSE ""

ImportFrame ==
  UNCHANGED <<now, ticks, key, entries, unlocked, screen, records, storage,
              download, vaultPw, fails>>

\* mutant: overwrite mode clears the entries before the backup is verified
ImportCallStep_ClearsFirst(t, blob, password, mode, checksummed, hkdfOk) ==
  /\ Idle(t)
  /\ LET err == ImportError(blob, password, hkdfOk, checksummed)
     IN IF err # ""
          THEN /\ last' = Returned("import", FALSE, 0, err)
               /\ dbEntries' = IF mode = "overwrite" THEN EmptyMap ELSE dbEntries
               /\ UNCHANGED <<tasks, dbSalt>>
          ELSE /\ Start(t, [IdleTask EXCEPT
                              !.op = "import",
                              !.pc = IF mode = "overwrite" THEN "clearEntries"
                                     ELSE "entries",
                              !.pw = password,
                              !.backup = GcmDecrypt(SliceCipher(atob(blob))),
                              !.mode = mode, !.n = 1])
               /\ UNCHANGED <<last, dbSalt, dbEntries>>
  /\ ImportFrame

\* the call up to its first write: decode, derive, decrypt, verify
ImportCallStep(t, blob, password, mode, checksummed, hkdfOk) ==
  /\ Idle(t)
  /\ LET err == ImportError(blob, password, hkdfOk, checksummed)
     IN IF err # ""
          THEN /\ last' = Returned("import", FALSE, 0, err)
               /\ UNCHANGED <<tasks, dbSalt, dbEntries>>
          ELSE /\ Start(t, [IdleTask EXCEPT
                              !.op = "import",
                              !.pc = IF mode = "overwrite" THEN "clearEntries"
                                     ELSE "entries",
                              !.pw = password,
                              !.backup = GcmDecrypt(SliceCipher(atob(blob))),
                              !.mode = mode, !.n = 1])
               /\ UNCHANGED <<last, dbSalt, dbEntries>>
  /\ ImportFrame

ImportCall(t, blob, password, mode, checksummed) ==
  \E hkdfOk \in BOOLEAN : ImportCallStep(t, blob, password, mode, checksummed, hkdfOk)

\* a write outside the per-entry try block has failed: the error is rethrown
ImportThrows(t) ==
  /\ last' = Returned("import", FALSE, 0, Incompatible)
  /\ Finish(t)
  /\ UNCHANGED <<dbSalt, dbEntries>>

\* mutant: the existing entries are not cleared
ImportClearEntries_Skips(t) ==
  /\ tasks[t].op = "import" /\ tasks[t].pc = "clearEntries"
  /\ \E ok \in BOOLEAN :
       IF ok THEN /\ Start(t, [tasks[t] EXCEPT !.pc = "clearMeta"])
                  /\ UNCHANGED <<dbEntries, dbSalt, last>>
             ELSE ImportThrows(t)
  /\ ImportFrame

\* await db.entries.clear()
ImportClearEntries(t) ==
  /\ tasks[t].op = "import" /\ tasks[t].pc = "clearEntries"
  /\ \E ok \in BOOLEAN :
       IF ok THEN /\ dbEntries' = EmptyMap
                  /\ Start(t, [tasks[t] EXCEPT !.pc = "clearMeta"])
                  /\ UNCHANGED <<dbSalt, last>>
             ELSE ImportThrows(t)
  /\ ImportFrame

\* await db.meta.clear()
ImportClearMeta(t) ==
  /\ tasks[t].op = "import" /\ tasks[t].pc = "clearMeta"
  /\ \E ok \in BOOLEAN :
       IF ok THEN /\ dbSalt' = NoSalt
                  /\ Start(t, [tasks[t] EXCEPT !.pc = "putSalt"])
                  /\ UNCHANGED <<dbEntries, last>>
             ELSE ImportThrows(t)
  /\ ImportFrame

\* await db.meta.put({key: 'salt', value: backup.salt})
ImportPutSalt(t) ==
  /\ tasks[t].op = "import" /\ tasks[t].pc = "putSalt"
  /\ \E ok \in BOOLEAN :
       IF ok THEN /\ dbSalt' = tasks[t].backup.salt
                  /\ Start(t, [tasks[t] EXCEPT !.pc = "entries"])
                  /\ UNCHANGED <<dbEntries, last>>
             ELSE ImportThrows(t)
  /\ ImportFrame

\* mutant: merge mode writes a backup entry over a persisted one
ImportEntry_MergeOverwrites(t) ==
  /\ tasks[t].op = "import" /\ tasks[t].pc = "entries"
  /\ tasks[t].n <= Len(tasks[t].backup.entries)
  /\ LET entry == tasks[t].backup.entries[tasks[t].n]
         next == [tasks[t] EXCEPT !.n = tasks[t].n + 1]
     IN \E ok \in BOOLEAN :
          IF ~ok
            THEN /\ Start(t, [next EXCEPT !.failed = tasks[t].failed + 1])
                 /\ UNCHANGED dbEntries
            ELSE IF tasks[t].mode = "overwrite"
              THEN /\ dbEntries' = DbPut(dbEntries, entry.id, entry.encrypted)
                   /\ Start(t, [next EXCEPT !.written = tasks[t].written + 1])
              ELSE /\ dbEntries' = DbPut(dbEntries, entry.id, entry.encrypted)
                   /\ Start(t, [next EXCEPT !.imported = tasks[t].imported + 1,
                                            !.written = tasks[t].written + 1])
  /\ UNCHANGED <<dbSalt, last>>
  /\ ImportFrame

\* one round of the loop over backup.entries; a failure is logged and skipped
\* (history: `written` counts the puts that succeeded, `failed` the rounds
\* that threw)
ImportEntry(t) ==
  /\ tasks[t].op = "import" /\ tasks[t].pc = "entries"
  /\ tasks[t].n <= Len(tasks[t].backup.entries)
  /\ LET entry == tasks[t].backup.entries[tasks[t].n]
         next == [tasks[t] EXCEPT !.n = tasks[t].n + 1]
     IN \E ok \in BOOLEAN :
          IF ~ok
            THEN /\ Start(t, [next EXCEPT !.failed = tasks[t].failed + 1])
                 /\ UNCHANGED dbEntries
            ELSE IF tasks[t].mode = "overwrite"
              THEN /\ dbEntries' = DbPut(dbEntries, entry.id, entry.encrypted)
                   /\ Start(t, [next EXCEPT !.written = tasks[t].written + 1])
              ELSE IF entry.id \in DOMAIN dbEntries
                THEN /\ Start(t, next)
                     /\ UNCHANGED dbEntries
                ELSE /\ dbEntries' = DbPut(dbEntries, entry.id, entry.encrypted)
                     /\ Start(t, [next EXCEPT !.imported = tasks[t].imported + 1,
                                              !.written = tasks[t].written + 1])
  /\ UNCHANGED <<dbSalt, last>>
  /\ ImportFrame

\* return {totalEntries, imported} (history: the mode, the backup and what
\* the loop did)
ImportReturn(t) ==
  /\ tasks[t].op = "import" /\ tasks[t].pc = "entries"
  /\ tasks[t].n > Len(tasks[t].backup.entries)
  /\ last' = [Returned("import", TRUE, 0, "") EXCEPT
                !.totalEntries = Len(tasks[t].backup.entries),
                !.imported = IF tasks[t].mode = "overwrite"
                               THEN Len(tasks[t].backup.entries)
                               ELSE tasks[t].imported,
                !.mode = tasks[t].mode,
                !.backup = tasks[t].backup,
                !.written = tasks[t].written,
                !.failed = tasks[t].failed]
  /\ Finish(t)
  /\ UNCHANGED <<dbSalt, dbEntries>>
  /\ ImportFrame

ImportWrites(t) ==
  \/ ImportClearEntries(t)
  \/ ImportClearMeta(t)
  \/ ImportPutSalt(t)
  \/ ImportEntry(t)
  \/ ImportReturn(t)

(***************************************************************************)
(* The files a user may pick for import: the file of the last export;      *)
(* backups of stores of this application sealed under password "P" in the  *)
(* layout import reads (IV || ciphertext), untouched or tampered with; and *)
(* a file that is not base64.                                              *)
(***************************************************************************)
BackedUpStores(salt) ==
  {db \in InitialStores(salt) :
     \A i \in DOMAIN db : db[i].wf /\ db[i].env.k = deriveKey("P", salt)}

BackupBodies ==
  UNION {{BackupData(StartNow - 1, salt, db) : db \in BackedUpStores(salt)} :
           salt \in Salts}

\* a backup as written, and one without a checksum
FilesOf(data) == {SignedBackup("P", data), PlainBackup(data)}

\* a wrong signature, a body altered after the checksum was computed, and an
\* entries field that is not an array
TamperedFilesOf(data) ==
  { [SignedBackup("P", data) EXCEPT !.signature = "LYNQAR_VAULT_BACKUP_V0"],
    [SignedBackup("P", data) EXCEPT !.createdAt = data.createdAt + 1],
    SignedBackup("P", [data EXCEPT !.entriesOk = FALSE, !.entries = <<>>]) }

CraftedFiles ==
  UNION {FilesOf(data) : data \in BackupBodies}
  \cup UNION {TamperedFilesOf(data) :
                data \in {d \in BackupBodies : d.total = MaxId}}

CraftedBlobs ==
  {NoBlob} \cup
  {btoa(IvBytes(1) \o GcmEncrypt("P", 1, file)) : file \in CraftedFiles}

ImportModes == {"overwrite", "merge"}

\* the password typed for an export: the backup codec treats all passwords
\* alike, and imports try both this one and another
ExportPasswords == {"P"}

PickedBlobs == CraftedBlobs \cup {download}

importVaultBackup(t) ==
  \E blob \in PickedBlobs, password \in Passwords, mode \in ImportModes :
    ImportCall(t, blob, password, mode, TRUE)

importVaultBackupLib(t) ==
  \E blob \in PickedBlobs, password \in Passwords, mode \in ImportModes :
    ImportCall(t, blob, password, mode, FALSE)

(***************************************************************************)
(* The rate limiter called directly, with a caller-supplied identity.      *)
(***************************************************************************)
\* the last (at most ATTEMPTS_5MIN) failure times, newest last
NoteFailureLong(fs, t) ==
  LET all == Append(fs, t)
  IN IF Len(all) > ATTEMPTS_5MIN THEN Tail(all) ELSE all

LimiterFrame ==
  UNCHANGED <<dbSalt, dbEntries, key, entries, unlocked, screen, tasks,
              download, vaultPw>>

Wait ==
  /\ ticks < MaxWaits
  /\ now' = now + WaitStep
  /\ ticks' = ticks + 1
  /\ UNCHANGED <<records, storage, last, fails>>
  /\ LimiterFrame

CheckLimitCall(identifier) ==
  /\ LET limitCheck == checkLimit(records, identifier, now)
     IN /\ records' = limitCheck.records
        /\ last' = Returned("checkLimit", limitCheck.allowed, limitCheck.waitTime, "")
  /\ UNCHANGED <<now, ticks, storage, fails>>
  /\ LimiterFrame

RecordFailedCall(identifier) ==
  /\ RecordOf(records, identifier).count < MaxCount
  /\ records' = recordFailedAttempt(records, identifier, now)
  /\ storage' = records'
  /\ fails' = NoteFailureLong(fails, now)
  /\ last' = Returned("recordFailedAttempt", TRUE, 0, "")
  /\ UNCHANGED <<now, ticks>>
  /\ LimiterFrame

RecordSuccessCall(identifier) ==
  /\ records' = recordSuccessfulAttempt(records, identifier, now)
  /\ storage' = records'
  /\ fails' = <<>>
  /\ last' = Returned("recordSuccessfulAttempt", TRUE, 0, "")
  /\ UNCHANGED <<now, ticks>>
  /\ LimiterFrame

(***************************************************************************)
(* totp.ts: generateTOTPToken, called as the clock runs                    *)
(***************************************************************************)
TOTPSecrets == {"JBSWY3DPEHPK3PXP"}

\* the clock is read twice a second
HalfSecond == 500

\* authenticator.generate(secret): a value of the secret and the 30-second
\* time step
authenticatorGenerate(secret, t) ==
  [secret |-> secret, counter |-> (t \div 1000) \div 30]

\* mutant: the seconds left are counted from 29 down to 0
remainingAt_FromZero(t) == 29 - ((t \div 1000) % 30)

\* 30 - (Math.floor(Date.now() / 1000) % 30)
remainingAt(t) == 30 - ((t \div 1000) % 30)

Elapse ==
  /\ ticks < MaxElapses
  /\ now' = now + HalfSecond
  /\ ticks' = ticks + 1
  /\ UNCHANGED <<records, storage, last, fails>>
  /\ LimiterFrame

generateTOTPToken(secret) ==
  /\ \E genOk \in BOOLEAN :
       last' = IF genOk
                 THEN [Returned("generateTOTPToken", TRUE, 0, "") EXCEPT
                         !.token = authenticatorGenerate(secret, now),
                         !.remaining = remainingAt(now),
                         !.period = 30,
                         !.at = now]
                 ELSE [Returned("generateTOTPToken", FALSE, 0,
                                "Invalid TOTP secret") EXCEPT !.at = now]
  /\ UNCHANGED <<now, ticks, records, storage, fails>>
  /\ LimiterFrame

(***************************************************************************)
(* The system.                                                             *)
(***************************************************************************)
Next ==
  \/ Reload
  \/ \E t \in Foreground : unlock(t)
  \/ lock
  \/ \E t \in Foreground : addEntry(t)
  \/ \E t \in Foreground : updateEntry(t)
  \/ \E t \in Foreground : deleteEntry(t)

Spec == Init /\ [][Next]_vars

(***************************************************************************)
(* Start-up and vault creation.                                            *)
(***************************************************************************)
NextOnboarding ==
  \/ Reload
  \/ \E password \in Passwords : handleSubmit(password)
  \/ \E t \in Foreground : unlock(t)
  \/ lock

SpecOnboarding == Init /\ [][NextOnboarding]_vars

(***************************************************************************)
(* The unlock path under a moving clock.                                   *)
(***************************************************************************)
NextLimiter ==
  \/ Tick
  \/ Reload
  \/ \E t \in Foreground : unlock(t)
  \/ lock

SpecLimiter == Init /\ [][NextLimiter]_vars

(***************************************************************************)
(* The rate limiter of a fresh page, driven by a caller that names its     *)
(* identity.                                                               *)
(***************************************************************************)
InitFresh == Init /\ dbSalt = NoSalt

NextRateLimiter ==
  \/ Wait
  \/ \E identifier \in Identities : CheckLimitCall(identifier)
  \/ \E identifier \in Identities : RecordFailedCall(identifier)
  \/ \E identifier \in Identities : RecordSuccessCall(identifier)

SpecRateLimiter == InitFresh /\ [][NextRateLimiter]_vars

(***************************************************************************)
(* Tokens generated again and again while the clock runs.                  *)
(***************************************************************************)
NextTotp ==
  \/ Elapse
  \/ \E secret \in TOTPSecrets : generateTOTPToken(secret)

SpecTotp == InitFresh /\ [][NextTotp]_vars

(***************************************************************************)
(* Export and import on a store left by earlier sessions.                  *)
(***************************************************************************)
NextBackup ==
  \/ \E password \in ExportPasswords : exportVaultBackup(password)
  \/ \E password \in ExportPasswords : exportVaultBackupLib(password)
  \/ \E t \in Foreground : importVaultBackup(t)
  \/ \E t \in Foreground : importVaultBackupLib(t)
  \/ \E t \in Foreground : ImportWrites(t)

SpecBackup == Init /\ [][NextBackup]_vars

(***************************************************************************)
(* Imports of backup files, one after another, on a store left by earlier  *)
(* sessions; the page may be reloaded while an import is in flight.        *)
(***************************************************************************)
NextImport ==
  \/ Reload
  \/ \E t \in Foreground : importVaultBackup(t)
  \/ \E t \in Foreground : importVaultBackupLib(t)
  \/ \E t \in Foreground : ImportWrites(t)

SpecImport == Init /\ [][NextImport]_vars

(***************************************************************************)
(* Entry operations issued without waiting for earlier ones to return.     *)
(***************************************************************************)
\* the session after unlock("P") has succeeded on a store whose rows are all
\* sealed under the key of "P"
InitUnlocked ==
  /\ now = StartNow
  /\ ticks = 0
  /\ dbSalt \in Salts
  /\ dbEntries \in BackedUpStores(dbSalt)
  /\ vaultPw = "P"
  /\ key = deriveKey("P", dbSalt)
  /\ entries = Decoded(key, dbEntries)
  /\ unlocked = TRUE
  /\ screen = "vault"
  /\ records = NoRecords
  /\ storage = NoRecords
  /\ tasks = [t \in Slots |-> IdleTask]
  /\ last = Returned("unlock", TRUE, 0, "")
  /\ download = NoBlob
  /\ fails = <<>>

NextEntries ==
  \/ \E t \in Slots : addEntry(t)
  \/ \E t \in Slots : updateEntry(t)
  \/ \E t \in Slots : deleteEntry(t)

SpecEntries == InitUnlocked /\ [][NextEntries]_vars


(***************************************************************************)
(* Properties of unlock and lock.                                          *)
(***************************************************************************)
\* the rows an unlock call that is about to return has read with toArray()
RowsRead(t) == IF tasks[t].pc = "decrypt" THEN tasks[t].all ELSE dbEntries

\* unlock returns in this step (a refused call returns in the step it is made)
UnlockReturns(t) == unlock(t) /\ tasks'[t].op = "idle"

Sealed(row, k) == row.wf /\ row.env.version = 1 /\ row.env.k = k

\* C1: unlock is all-or-nothing.  When unlock returns success, every row it
\* read parses and decrypts under the derived key, that key is the one put in
\* memory, and the exposed collection is the decryption of all the rows read;
\* when it returns failure, key, entries and unlocked are what they were.
C1_UnlockAllOrNothing ==
  [][\A t \in Slots :
       UnlockReturns(t) =>
         IF last'.op = "unlock" /\ last'.success
           THEN /\ key' # NoKey /\ key' = tasks[t].derived /\ unlocked'
                /\ \A i \in DOMAIN RowsRead(t) : Sealed(RowsRead(t)[i], key')
                /\ Len(entries') = Cardinality(DOMAIN RowsRead(t))
                /\ \A i \in DOMAIN RowsRead(t) :
                     \E n \in DOMAIN entries' : entries'[n] = RowsRead(t)[i].env.pt
           ELSE UNCHANGED <<key, entries, unlocked>>]_vars

\* C1 witness: unlock has just failed, with nothing exposed, on a store that
\* holds a row sealed under each password, so that either password decrypts
\* only a part of it.
C1_Witness ==
  /\ last.op = "unlock" /\ ~last.success /\ last.err = ""
  /\ key = NoKey /\ entries = <<>> /\ ~unlocked
  /\ \E i, j \in DOMAIN dbEntries :
       /\ Sealed(dbEntries[i], [pw |-> "P", salt |-> dbSalt])
       /\ Sealed(dbEntries[j], [pw |-> "Q", salt |-> dbSalt])
  /\ \E c \in DOMAIN records : records[c].count > 0

\* C2: for a vault created with password P, an unlock call made on the locked
\* vault, and met by no failure of the store or of the platform, succeeds and exposes exactly the persisted entries when called with
\* P, and fails, leaving no key, no entries and the vault locked, when called
\* with any other password.
C2_UnlockCorrectness ==
  [][\A t \in Slots :
       ((UnlockToArrayStep(t, TRUE) \/ UnlockDecrypt(t)) /\ tasks'[t].op = "idle"
          /\ key = NoKey /\ vaultPw # NoPw) =>
         IF tasks[t].pw = vaultPw
           THEN /\ last'.success
                /\ Len(entries') = Cardinality(DOMAIN dbEntries)
           ELSE /\ ~last'.success
                /\ key' = NoKey /\ entries' = <<>> /\ ~unlocked']_vars

\* C9: lock can always be called, and it leaves no key, no entries and
\* unlocked = false in memory while the persisted rows and salt stay as they are.
C9_LockDiscards ==
  /\ [](ENABLED lock)
  /\ [][lock => /\ key' = NoKey /\ entries' = <<>> /\ unlocked' = FALSE
                /\ dbEntries' = dbEntries /\ dbSalt' = dbSalt
                /\ last'.op = "lock" /\ last'.success]_vars

\* C9 witness: lock has returned on a vault that held a key and entries a
\* moment ago (the store still holds a row sealed under a password).
C9_Witness ==
  /\ last.op = "lock" /\ last.success
  /\ key = NoKey /\ entries = <<>> /\ ~unlocked
  /\ screen = "unlock"
  /\ \E i \in DOMAIN dbEntries : dbEntries[i].wf /\ dbEntries[i].env.pt.updatedAt # 0

(***************************************************************************)
(* Properties of addEntry, updateEntry and deleteEntry.                    *)
(***************************************************************************)
Mutation(t) == addEntry(t) \/ updateEntry(t) \/ deleteEntry(t)

\* C10: a step of addEntry, updateEntry or deleteEntry changes the in-memory
\* collection only when the put or delete of that same call has been carried
\* out by the store, and a call that fails leaves the collection as it was.
C10_PersistBeforeMemory ==
  [][\A t \in Slots :
       Mutation(t) =>
         /\ entries' # entries =>
              /\ tasks[t].pc \in {"put", "deleted"}
              /\ last'.success
              /\ dbEntries' = dbEntries
         /\ (tasks[t].op # "idle" /\ tasks'[t].op = "idle" /\ ~last'.success) =>
              entries' = entries
         /\ (tasks[t].pc = "encrypt" /\ tasks'[t].pc = "put") =>
              /\ tasks[t].entry.id \in DOMAIN dbEntries'
              /\ dbEntries'[tasks[t].entry.id] = tasks[t].enc
         /\ (tasks[t].pc = "delete" /\ tasks'[t].pc = "deleted") =>
              tasks[t].id \notin DOMAIN dbEntries']_vars

\* C10 witness: an addEntry has failed at its put; the record it built is
\* neither in the store nor in memory, and the vault is still unlocked.
C10_Witness ==
  /\ last.op = "add" /\ ~last.success /\ last.err = "put failed"
  /\ key # NoKey /\ unlocked
  /\ Len(entries) = Cardinality(DOMAIN dbEntries)
  /\ Len(entries) < MaxId


(***************************************************************************)
(* Properties of the rate limiter as unlock uses it.                       *)
(***************************************************************************)
\* the record checkLimit() looks at now is under a lockout
LockedOutNow ==
  /\ now % IdSliceModulus \in DOMAIN records
  /\ now < records[now % IdSliceModulus].lockoutUntil

\* C6: after 5 failed unlocks in a row, all within the last 30 seconds, the
\* next unlock call is refused with a wait time (of at most the 5 minutes of
\* the longer lockout).
C6_Escalation ==
  [][\A t \in Slots, password \in Passwords :
       (UnlockCall(t, password) /\ Len(fails) = ATTEMPTS_30S
          /\ now - fails[1] < LOCKOUT_30S) =>
         /\ last'.op = "unlock" /\ ~last'.success /\ last'.err = "rateLimit"
         /\ last'.wait > 0 /\ last'.wait <= LOCKOUT_5MIN
         /\ tasks' = tasks]_vars

\* C7: when unlock returns success no record of this client keeps a failure
\* count or a pending lockout, and the next unlock call is allowed.
C7_SuccessClears ==
  [][\A t \in Slots :
       (UnlockReturns(t) /\ last'.op = "unlock" /\ last'.success) =>
         /\ \A c \in DOMAIN records' :
              records'[c].count = 0 /\ records'[c].lockoutUntil <= now
         /\ \A c \in DOMAIN storage' :
              storage'[c].count = 0 /\ storage'[c].lockoutUntil <= now]_vars

\* C8: an unlock call made while the limiter refuses returns success = false
\* with the remaining wait time, starts nothing (no salt read, no derivation,
\* no decryption), records no attempt and leaves key, entries and unlocked alone.
C8_RefusalTouchesNothing ==
  [][\A t \in Slots, password \in Passwords :
       (UnlockCall(t, password) /\ LockedOutNow) =>
         /\ last'.op = "unlock" /\ ~last'.success /\ last'.err = "rateLimit"
         /\ last'.wait = records[now % IdSliceModulus].lockoutUntil - now
         /\ tasks' = tasks
         /\ UNCHANGED <<records, storage, fails, key, entries, unlocked,
                        dbSalt, dbEntries>>]_vars

\* C8 witness: on an existing vault an unlock call has been refused with a
\* 30-second wait; nothing is in flight and the vault is locked.
C8_Witness ==
  /\ last.op = "unlock" /\ last.err = "rateLimit" /\ last.wait = LOCKOUT_30S
  /\ dbSalt # NoSalt /\ key = NoKey /\ ~unlocked
  /\ \A t \in Slots : tasks[t].op = "idle"
  /\ LockedOutNow
  /\ Len(fails) = ATTEMPTS_30S

(***************************************************************************)
(* Backup import and export                                                *)
(***************************************************************************)
\* an import call that ends at once with an error: the blob could not be
\* decoded, the key could not be derived, decryption failed, or the
\* signature, the checksum or the entries field was refused
ImportRejects(t) ==
  /\ tasks[t].op = "idle" /\ tasks'[t].op = "idle"
  /\ last'.op = "import" /\ ~last'.success
  /\ importVaultBackup(t) \/ importVaultBackupLib(t)

\* C3: an import that fails on its blob (undecodable, not decryptable with
\* the password, wrong signature, wrong checksum, malformed entries field)
\* has performed no clear, put or delete, in either mode: the persisted salt
\* and entries are what they were before the call.
C3_RejectedImportLeavesStore ==
  [][\A t \in Slots :
       ImportRejects(t) => dbSalt' = dbSalt /\ dbEntries' = dbEntries]_vars

\* an overwrite import of a tampered backup has just been refused on a
\* store that holds entries
C3_Witness ==
  /\ last.op = "import" /\ ~last.success /\ last.err = Incompatible
  /\ dbSalt # NoSalt /\ DOMAIN dbEntries = Ids
  /\ \A t \in Slots : tasks[t].op = "idle"

\* C4: no backup whose stored checksum is absent or differs from the HMAC
\* recomputed with the supplied password gets past verification: an import
\* that has reached its write phase holds a backup whose checksum matches.
C4_ChecksumVerifiedBeforeWrites ==
  \A t \in Slots :
    tasks[t].op = "import" => ChecksumMatches(tasks[t].pw, tasks[t].backup)

\* the password a downloaded backup was sealed with
SealedWith(blob) == blob.bytes[1].pw

\* C5: the file exportVaultBackup(P) wrote, given back to
\* importVaultBackup(blob, P, 'overwrite') on a platform whose key
\* derivation works, is accepted.
C5_RoundTripAccepted ==
  [][\A t \in Slots :
       (download # NoBlob
        /\ ImportCallStep(t, download, SealedWith(download), "overwrite", TRUE, TRUE))
       => tasks'[t].op = "import"]_vars

(***************************************************************************)
(* Entry updates                                                           *)
(***************************************************************************)
\* the plaintext a persisted row holds under the session key, NoEntry when
\* the row does not parse or decrypt
RowEntry(db, id) ==
  IF JSONparseOk(db[id]) /\ decryptOk(key, JSONparse(db[id]))
    THEN decryptJSON(key, JSONparse(db[id]))
    ELSE NoEntry

\* updateEntry(id, payload) is called, unlocked, on an entry the session holds
UpdatesExisting(t, id, payload) ==
  /\ key # NoKey /\ id \in MemIds
  /\ UpdateCall(t, id, payload)

\* C11: updateEntry on an existing entry builds a record with the same id,
\* the entry's createdAt, updatedAt = now and the payload's fields alone;
\* that record is what is persisted and then put in memory; and no step,
\* with updates, adds and deletes overlapping, changes the createdAt of an
\* entry the session holds, in memory or in the store.
C11_UpdatePreserves ==
  [][/\ \A t \in Slots, id \in Ids, payload \in Payloads :
          UpdatesExisting(t, id, payload) =>
            /\ tasks'[t].entry.id = id
            /\ \E n \in DOMAIN entries :
                 /\ entries[n].id = id
                 /\ tasks'[t].entry.createdAt = entries[n].createdAt
            /\ tasks'[t].entry.updatedAt = now
            /\ tasks'[t].entry.title = payload.title
            /\ tasks'[t].entry.notes = payload.notes
     /\ \A t \in Slots :
          (tasks[t].op = "update" /\ WritePutStep(t, TRUE, TRUE)) =>
            RowEntry(dbEntries', tasks[t].entry.id) = tasks[t].entry
     /\ \A t \in Slots :
          (tasks[t].op = "update" /\ WriteCommit(t)) =>
            \A n \in DOMAIN entries' :
              entries'[n].id = tasks[t].entry.id => entries'[n] = tasks[t].entry
     /\ \A n \in DOMAIN entries, m \in DOMAIN entries' :
          entries[n].id = entries'[m].id =>
            entries[n].createdAt = entries'[m].createdAt
     /\ \A n \in DOMAIN entries :
          LET id == entries[n].id
          IN (id \in DOMAIN dbEntries /\ id \in DOMAIN dbEntries'
              /\ RowEntry(dbEntries, id) # NoEntry) =>
               /\ RowEntry(dbEntries', id).id = id
               /\ RowEntry(dbEntries', id).createdAt = RowEntry(dbEntries, id).createdAt
    ]_vars

\* two updates of one entry of an earlier session are in flight at once, the
\* first already persisted, and the first dropped the notes the entry had
C11_Witness ==
  /\ tasks[1].op = "update" /\ tasks[1].pc = "put"
  /\ tasks[2].op = "update" /\ tasks[2].pc = "encrypt"
  /\ tasks[1].entry.id = tasks[2].entry.id
  /\ tasks[1].entry.createdAt = StartNow - 1
  /\ tasks[1].entry.notes = NoNotes
  /\ \E n \in DOMAIN entries :
       /\ entries[n].id = tasks[1].entry.id
       /\ entries[n].notes # NoNotes
       /\ entries[n].updatedAt = now

(***************************************************************************)
(* Import modes                                                            *)
(***************************************************************************)
\* the entries table that holds exactly the entries of a backup
StoreOf(file) ==
  [id \in {file.entries[n].id : n \in DOMAIN file.entries} |->
     file.entries[CHOOSE n \in DOMAIN file.entries : file.entries[n].id = id].encrypted]

\* C12: when an overwrite import returns successfully the store holds exactly
\* the backup's salt and exactly the backup's entries, each row verbatim.
C12_OverwriteInstallsBackup ==
  [][\A t \in Slots :
       (tasks[t].mode = "overwrite" /\ ImportReturn(t)) =>
         /\ dbSalt' = tasks[t].backup.salt
         /\ dbEntries' = StoreOf(tasks[t].backup)]_vars

\* the rows of the backup an import has gone through so far
RowsDone(t) ==
  {tasks[t].backup.entries[m] : m \in 1..(tasks[t].n - 1)}

C14_MergeKeepsExisting ==
  [][\A t \in Slots :
       (tasks[t].op = "import" /\ tasks[t].mode = "merge" /\ ImportWrites(t)) =>
         /\ dbSalt' = dbSalt
         /\ \A id \in DOMAIN dbEntries :
              id \in DOMAIN dbEntries' /\ dbEntries'[id] = dbEntries[id]
         /\ \A id \in (DOMAIN dbEntries') \ (DOMAIN dbEntries) :
              /\ tasks[t].n <= Len(tasks[t].backup.entries)
              /\ tasks[t].backup.entries[tasks[t].n].id = id
              /\ dbEntries'[id] = tasks[t].backup.entries[tasks[t].n].encrypted]_vars

\* a merge import has returned after skipping an entry that was persisted
\* with another row and writing one that was not
C14_Witness ==
  /\ last.op = "import" /\ last.success /\ last.mode = "merge"
  /\ last.totalEntries = MaxId /\ last.imported = 1 /\ last.failed = 0
  /\ \E n \in DOMAIN last.backup.entries :
       dbEntries[last.backup.entries[n].id] # last.backup.entries[n].encrypted

\* a merge import is in flight and the call that returned before it was a
\* successful merge import of the same backup
SecondMerge(t) ==
  /\ tasks[t].op = "import" /\ tasks[t].mode = "merge"
  /\ last.op = "import" /\ last.success /\ last.mode = "merge"
  /\ last.backup = tasks[t].backup

C16_ImportedCountsWrites ==
  [][\A t \in Slots :
       ImportReturn(t) =>
         /\ last'.success
         /\ last'.totalEntries = Len(tasks[t].backup.entries)
         /\ last'.imported = tasks[t].written]_vars

(***************************************************************************)
(* The rate limiter's functions                                            *)
(***************************************************************************)
\* C17: recordFailedAttempt(identity) adds exactly one to the identity's
\* counter and sets lastAttempt to now; a new counter of at least 10 sets
\* lockoutUntil to now + 5 minutes, otherwise one of at least 5 sets it to
\* now + 30 seconds, otherwise lockoutUntil stays as it was.
C17_RecordFailedAttempt ==
  [][\A identity \in Identities :
       RecordFailedCall(identity) =>
         LET old == RecordOf(records, identity)
             new == records'[identity]
         IN /\ new.count = old.count + 1
            /\ new.lastAttempt = now
            /\ new.lockoutUntil =
                 IF new.count >= 10 THEN now + 5 * 60 * 1000
                 ELSE IF new.count >= 5 THEN now + 30 * 1000
                 ELSE old.lockoutUntil]_vars

\* the tenth failure in a row has been recorded and the long lockout is set
C17_Witness ==
  \E identity \in Identities :
    /\ identity \in DOMAIN records
    /\ records[identity].count = 10
    /\ records[identity].lastAttempt = now
    /\ records[identity].lockoutUntil = now + 5 * 60 * 1000
    /\ last.op = "recordFailedAttempt"

\* C18: checkLimit(identity) refuses, with waitTime = lockoutUntil - now,
\* exactly when now < lockoutUntil, and allows otherwise; a refused check
\* leaves the identity's record as it was.
C18_CheckLimit ==
  [][\A identity \in Identities :
       CheckLimitCall(identity) =>
         LET old == RecordOf(records, identity)
         IN /\ last'.success = ~(now < old.lockoutUntil)
            /\ now < old.lockoutUntil =>
                 /\ last'.wait = old.lockoutUntil - now
                 /\ records'[identity] = old]_vars

\* a check has just been refused during a 30-second lockout, 20 seconds in
C18_Witness ==
  \E identity \in Identities :
    /\ last.op = "checkLimit" /\ ~last.success
    /\ last.wait = 10 * 1000
    /\ identity \in DOMAIN records
    /\ records[identity].count = 5

\* C19: a failure sets the 30-second lockout only as the 5th failure within
\* 30 seconds, and the 5-minute lockout only as the 10th within 5 minutes.
C19_Windowed ==
  [][\A identity \in Identities :
       RecordFailedCall(identity) =>
         /\ records'[identity].lockoutUntil = now + LOCKOUT_30S =>
              /\ Len(fails') >= ATTEMPTS_30S
              /\ now - fails'[Len(fails') - ATTEMPTS_30S + 1] <= LOCKOUT_30S
         /\ records'[identity].lockoutUntil = now + LOCKOUT_5MIN =>
              /\ Len(fails') >= ATTEMPTS_5MIN
              /\ now - fails'[Len(fails') - ATTEMPTS_5MIN + 1] <= LOCKOUT_5MIN]_vars

(***************************************************************************)
(* C20: once a vault has a persisted salt, no step replaces or deletes it  *)
(* except a step of an overwrite-mode import: vault-creation attempts,     *)
(* start-ups (also ones whose read of the store fails), unlock and lock    *)
(* leave the persisted salt as it is.                                      *)
(***************************************************************************)
C20_SaltNeverReplaced ==
  [][dbSalt # NoSalt =>
       \/ dbSalt' = dbSalt
       \/ \E t \in Slots : tasks[t].op = "import" /\ tasks[t].mode = "overwrite"]_vars

(***************************************************************************)
(* C22: when deriveKey itself fails during unlock (the salt was read and   *)
(* exists), the call returns an outcome that differs from the one a wrong  *)
(* password gets, and the failure is not recorded as a failed attempt.     *)
(***************************************************************************)
WrongPasswordOutcome == Returned("unlock", FALSE, 0, "")

C22_DerivationFailureDistinct ==
  [][\A t \in Foreground :
       (dbSalt # NoSalt /\ UnlockGetSaltStep(t, TRUE, FALSE)) =>
         /\ last' # WrongPasswordOutcome
         /\ records' = records]_vars

(***************************************************************************)
(* C23: a vault that one password unlocks stays so.  When a salt is        *)
(* persisted and every persisted row is sealed under the key of one        *)
(* password and that salt, then after every step of every operation all    *)
(* persisted rows are again sealed under the key of one password and the   *)
(* persisted salt.                                                         *)
(***************************************************************************)
Unlockable ==
  \E pw \in Passwords :
    \A i \in DOMAIN dbEntries : Sealed(dbEntries[i], deriveKey(pw, dbSalt))

C23_AlwaysUnlockable ==
  [][(dbSalt # NoSalt /\ Unlockable) => Unlockable']_vars

(***************************************************************************)
(* C24: whenever the vault is locked (no unlock has succeeded since the    *)
(* last lock, so `unlocked` is false) the in-memory key is absent and the  *)
(* in-memory collection is empty, whatever calls were in flight when lock  *)
(* ran.                                                                    *)
(***************************************************************************)
C24_LockedIsEmpty == ~unlocked => (key = NoKey /\ entries = <<>>)

(***************************************************************************)
(* C25: while the vault is unlocked, when an addEntry, updateEntry or      *)
(* deleteEntry call completes and no other call is in flight, the ids of   *)
(* the in-memory collection are the ids of the persisted store and every   *)
(* in-memory record is the decryption of its persisted envelope.           *)
(***************************************************************************)
MutationCompletes(t) ==
  /\ tasks[t].op \in {"add", "update", "delete"}
  /\ tasks'[t].op = "idle"
  /\ last'.success
  /\ \A u \in Slots \ {t} : tasks[u].op = "idle"
  /\ addEntry(t) \/ updateEntry(t) \/ deleteEntry(t)

MemoryMatchesStore(es, db, k) ==
  /\ {es[n].id : n \in DOMAIN es} = DOMAIN db
  /\ \A n \in DOMAIN es :
       /\ decryptOk(k, JSONparse(db[es[n].id]))
       /\ es[n] = decryptJSON(k, JSONparse(db[es[n].id]))

C25_MemoryMatchesStore ==
  [][\A t \in Slots :
       (unlocked /\ MutationCompletes(t)) =>
         MemoryMatchesStore(entries', dbEntries', key')]_vars

(***************************************************************************)
(* C26: an addEntry, updateEntry or deleteEntry call issued while no key   *)
(* is in memory fails at once with 'Vault is locked': the call starts no   *)
(* work, and the persisted store and the in-memory collection stay as they *)
(* are.                                                                    *)
(***************************************************************************)
C26_LockedMutationsFail ==
  [][\A t \in Slots :
       (key = NoKey /\ Idle(t) /\ (addEntry(t) \/ updateEntry(t) \/ deleteEntry(t)))
       => /\ last'.err = "Vault is locked"
          /\ tasks'[t].op = "idle"
          /\ UNCHANGED <<dbEntries, entries>>]_vars

(***************************************************************************)
(* C27: a checkLimit(identity) call made when the identity is not locked   *)
(* out is allowed; it lowers the counter by one, not below zero, when more *)
(* than 30 seconds have passed since lastAttempt, and leaves the counter   *)
(* as it was otherwise.  No checkLimit call, allowed or refused, changes   *)
(* lastAttempt or lockoutUntil.                                            *)
(***************************************************************************)
C27_CheckLimitDecay ==
  [][\A identity \in Identities :
       CheckLimitCall(identity) =>
         LET old == RecordOf(records, identity)
             new == records'[identity]
         IN /\ new.lastAttempt = old.lastAttempt
            /\ new.lockoutUntil = old.lockoutUntil
            /\ ~(now < old.lockoutUntil) =>
                 /\ last'.success
                 /\ new.count =
                      IF now - old.lastAttempt > 30 * 1000
                        THEN (IF old.count > 0 THEN old.count - 1 ELSE 0)
                        ELSE old.count]_vars

\* an allowed check, 40 seconds after the second of two failures, has lowered
\* the counter from 2 to 1
C27_Witness ==
  \E identity \in Identities :
    /\ last.op = "checkLimit" /\ last.success
    /\ identity \in DOMAIN records
    /\ Len(fails) = 2
    /\ records[identity].count = 1
    /\ records[identity].lastAttempt = fails[2]
    /\ now = records[identity].lastAttempt + 40 * 1000

(***************************************************************************)
(* C28: importVaultBackup reports each fatal verification failure by its   *)
(* own error: a blob that does not decrypt under the password as           *)
(* "incompatible or corrupted", a decrypted file with a wrong signature as *)
(* an invalid signature, and a file whose checksum does not match as a     *)
(* failed integrity check.                                                 *)
(***************************************************************************)
InvalidBackupSignature == "Invalid backup file signature"
IntegrityCheckFailed ==
  "Backup integrity check failed - file may be corrupted or tampered with"

C28_DistinctImportFailures ==
  [][\A t \in Slots, blob \in PickedBlobs, password \in Passwords,
        mode \in ImportModes :
       (/\ Idle(t) /\ last'.op = "import" /\ ~last'.success
        /\ atobOk(blob)
        /\ ImportCallStep(t, blob, password, mode, TRUE, TRUE))
       => IF ~GcmDecryptOk(password, SliceIv(atob(blob)), SliceCipher(atob(blob)))
            THEN last'.err = Incompatible
            ELSE LET backup == GcmDecrypt(SliceCipher(atob(blob)))
                 IN IF backup.signature # BackupSignature
                      THEN last'.err = InvalidBackupSignature
                      ELSE ~ChecksumMatches(password, backup) =>
                             last'.err = IntegrityCheckFailed]_vars

(***************************************************************************)
(* C29: while the record of an identity exists its lockoutUntil never      *)
(* decreases, whatever checkLimit and recordFailedAttempt calls are made   *)
(* as the clock advances; a record, once there, is removed by              *)
(* recordSuccessfulAttempt only.                                           *)
(***************************************************************************)
C29_LockoutNeverShortened ==
  [][\A identity \in Identities :
       identity \in DOMAIN records =>
         IF identity \in DOMAIN records'
           THEN records'[identity].lockoutUntil >= records[identity].lockoutUntil
           ELSE RecordSuccessCall(identity)]_vars

\* a sixth failure, recorded 20 seconds into the 30-second lockout the fifth
\* had set, has moved the end of the lockout forward
C29_Witness ==
  \E identity \in Identities :
    /\ last.op = "recordFailedAttempt"
    /\ identity \in DOMAIN records
    /\ records[identity].count = 6
    /\ Len(fails) = 6
    /\ fails[6] = now /\ fails[5] = now - 20 * 1000
    /\ records[identity].lockoutUntil = now + 30 * 1000

(***************************************************************************)
(* C30: a successful generateTOTPToken call returns period = 30 and        *)
(* remaining = 30 - (unixSeconds mod 30) for the time of the call:         *)
(* remaining is an integer in 1..30, it is 30 when the call falls on the   *)
(* first second of a time step, and of two calls one second apart within   *)
(* one time step the later returns one less than the earlier.              *)
(***************************************************************************)
C30_TotpRemaining ==
  [][\A secret \in TOTPSecrets :
       (generateTOTPToken(secret) /\ last'.success) =>
         LET unixSeconds == now \div 1000
         IN /\ last'.period = 30
            /\ last'.remaining = 30 - (unixSeconds % 30)
            /\ last'.remaining \in 1..30
            /\ unixSeconds % 30 = 0 => last'.remaining = 30
            /\ (/\ last.op = "generateTOTPToken" /\ last.success
                /\ now = last.at + 1000
                /\ unixSeconds \div 30 = (last.at \div 1000) \div 30)
               => last'.remaining = last.remaining - 1]_vars

\* a token has just been generated half a second into the first second of a
\* time step
C30_Witness ==
  /\ last.op = "generateTOTPToken" /\ last.success
  /\ last.at = now
  /\ now % (30 * 1000) = 500
  /\ last.remaining = 30
  /\ last.period = 30

====
